---- MODULE Spec2Model ----
(***************************************************************************)
(* Model of the Tidalwav album-submission server (server.js, kept under    *)
(* src/unnamed/part_000): the JSON record store, multer's asset placement, *)
(* the POST /submit ingestion pipeline, the admin session gate and the     *)
(* review routes.                                                          *)
(*                                                                         *)
(* Values: every JSON scalar is a string; the JavaScript null is the       *)
(* string Null, a missing key is a key outside the DOMAIN of the object.   *)
(* Objects are functions from key strings to values.  A path relative to   *)
(* UPLOADS_DIR is the string "<subId>/<originalname>".                     *)
(***************************************************************************)
EXTENDS Integers, Sequences, FiniteSets, TLC

(***************************************************************************)
(* Bounds of the model.                                                    *)
(***************************************************************************)
MaxSubs == 2        \* identifiers handed out by uuidv4() in one run
NumReqs == 2        \* POST /submit requests that can be in flight at once
MaxTracks == 2      \* longest declared track list
MaxUploads == 2     \* longest trackFiles upload list
AuthSubs == 1       \* identifiers handed out in the session-gate runs
MaxDigits == 2      \* longest text of the numSongs form field

(***************************************************************************)
(* Configuration and value domains.                                        *)
(***************************************************************************)
Null == "<null>"
ADMIN_PASS == "adminpass"

Reqs == 1..NumReqs
Sessions == {"s1", "s2"}
Passwords == {"", "adminpass", "Adminpass"}
AudioNames == {"a.mp3", "b.mp3"}
CoverNames == {"c.png"}
Undefined == "<undefined>"
\* note values of an approve/reject body: null, "" or a text
Notes == {Null, "", "n1", "n2"}

IdOf(n) == "id" \o ToString(n)
AllIds == {IdOf(n) : n \in 1..MaxSubs}
UnknownId == "nosuch"

\* JavaScript truthiness of a string-or-null value
Truthy(v) == v \notin {Null, Undefined, ""}

\* variant: every upload is placed in one directory shared by all requests
RelPath_shared(subId, name) == "shared" \o "/" \o name

\* path.relative(UPLOADS_DIR, path.join(UPLOADS_DIR, subId, originalname))
RelPath(subId, name) == subId \o "/" \o name

\* property read t.key of an object: undefined when the key is missing
Get(o, k) == IF k \in DOMAIN o THEN o[k] ELSE Undefined

(***************************************************************************)
(* The `tracks` form field.  The raw text is one of: field missing or      *)
(* empty, text that JSON.parse rejects, or text that JSON.parse accepts    *)
(* and that denotes the JSON value val.  A JSON value is an array of       *)
(* elements or a non-array (object, number, string, null); an element is   *)
(* an object, a number or null.                                            *)
(***************************************************************************)
EmptyObj == [k \in {} |-> ""]

ObjElem(o) == [t |-> "object", o |-> o]
NumElem == [t |-> "number", o |-> EmptyObj]
NullElem == [t |-> "null", o |-> EmptyObj]

JArray(items) == [t |-> "array", items |-> items]
JOther(t) == [t |-> t, items |-> <<>>]

RawMissing == [kind |-> "missing", val |-> JArray(<<>>)]
RawMalformed == [kind |-> "malformed", val |-> JArray(<<>>)]
RawJson(v) == [kind |-> "json", val |-> v]

\* JSON.parse(req.body.tracks || '[]'): ok = FALSE when it throws
ParseTracks(raw) ==
  CASE raw.kind = "missing" -> [ok |-> TRUE, val |-> JArray(<<>>)]
    [] raw.kind = "malformed" -> [ok |-> FALSE, val |-> JArray(<<>>)]
    [] OTHER -> [ok |-> TRUE, val |-> raw.val]

(***************************************************************************)
(* parseInt(text, 10) on a text given as a sequence of characters: skip    *)
(* leading blanks, take an optional sign, then the longest run of digits;  *)
(* NaN when there is no digit.                                             *)
(***************************************************************************)
DigitVal(c) ==
  CASE c = "0" -> 0 [] c = "1" -> 1 [] c = "2" -> 2 [] c = "3" -> 3
    [] c = "4" -> 4 [] c = "5" -> 5 [] c = "6" -> 6 [] c = "7" -> 7
    [] c = "8" -> 8 [] c = "9" -> 9 [] OTHER -> -1

RECURSIVE SkipBlanks(_)
SkipBlanks(s) ==
  IF s # <<>> /\ Head(s) = " " THEN SkipBlanks(Tail(s)) ELSE s

RECURSIVE Digits(_, _, _)
Digits(s, acc, seen) ==
  IF s # <<>> /\ DigitVal(Head(s)) >= 0
    THEN Digits(Tail(s), 10 * acc + DigitVal(Head(s)), TRUE)
    ELSE [nan |-> ~seen, v |-> acc]

ParseInt(text) ==
  LET s == SkipBlanks(text)
      neg == s # <<>> /\ Head(s) = "-"
      body == IF s # <<>> /\ Head(s) \in {"-", "+"} THEN Tail(s) ELSE s
      d == Digits(body, 0, FALSE)
  IN  [nan |-> d.nan, v |-> IF neg THEN 0 - d.v ELSE d.v]

\* variant: Number(text) in place of parseInt, a text with anything after
\* the digits is not a number
NumSongsOf_wholeText(text) ==
  LET p == ParseInt(IF text = <<>> THEN <<"0">> ELSE text)
      body == IF Head(SkipBlanks(text)) \in {"-", "+"}
                THEN Tail(SkipBlanks(text)) ELSE SkipBlanks(text)
  IN  IF text = <<>> \/ SkipBlanks(text) = <<>> \/ p.nan THEN 0
      ELSE IF \A k \in 1..Len(body) : DigitVal(body[k]) >= 0 THEN p.v
      ELSE 0

\* parseInt(req.body.numSongs || '0', 10) || 0
NumSongsOf(text) ==
  LET p == ParseInt(IF text = <<>> THEN <<"0">> ELSE text)
  IN  IF p.nan THEN 0 ELSE p.v

\* (req.body.platforms || '').split(',').map(s => s.trim()).filter(Boolean),
\* on the sequence of comma-separated pieces (already trimmed)
RECURSIVE PlatformsOf(_)
PlatformsOf(pieces) ==
  IF pieces = <<>> THEN <<>>
  ELSE IF Head(pieces) = "" THEN PlatformsOf(Tail(pieces))
       ELSE <<Head(pieces)>> \o PlatformsOf(Tail(pieces))

(***************************************************************************)
(* Track-to-file matching of POST /submit.                                 *)
(***************************************************************************)
\* audioFiles.find(f => f.originalname === (t.fileName || '')): index of the
\* first upload carrying that name, 0 when there is none
FindByName(audioFiles, o) ==
  LET fn == Get(o, "fileName")
      want == IF Truthy(fn) THEN fn ELSE ""
      hits == {i \in 1..Len(audioFiles) : audioFiles[i] = want}
  IN  IF hits = {} THEN 0 ELSE CHOOSE i \in hits : \A j \in hits : i <= j

\* variant: { file: f, originalFileName: n, ...t }, the keys of t win
WithFile_keepOwn(o, f, n) == o @@ ("file" :> f) @@ ("originalFileName" :> n)

\* { ...t, file: f, originalFileName: n }
WithFile(o, f, n) == ("file" :> f) @@ ("originalFileName" :> n) @@ o

\* variant: positional matching only, the declared fileName is ignored
TrackWithFile_byPosition(subId, audioFiles, elem, pos) ==
  IF pos <= Len(audioFiles)
    THEN WithFile(elem.o, RelPath(subId, audioFiles[pos]), audioFiles[pos])
    ELSE WithFile(elem.o, Null, Null)

\* variant: the positional fallback records the path but not the name
TrackWithFile_fallbackUnnamed(subId, audioFiles, elem, pos) ==
  LET m == FindByName(audioFiles, elem.o)
  IN  IF m # 0
        THEN WithFile(elem.o, RelPath(subId, audioFiles[m]), audioFiles[m])
      ELSE IF pos <= Len(audioFiles)
        THEN WithFile(elem.o, RelPath(subId, audioFiles[pos]), Null)
      ELSE WithFile(elem.o, Null, Null)

\* the callback of tracks.map for the element at 1-based position pos
\* (idx = pos - 1 in the source, audioFiles[idx] is audioFiles[pos] here)
TrackWithFile(subId, audioFiles, elem, pos) ==
  LET m == FindByName(audioFiles, elem.o)
  IN  IF m # 0
        THEN WithFile(elem.o, RelPath(subId, audioFiles[m]), audioFiles[m])
      ELSE IF pos <= Len(audioFiles)
        THEN WithFile(elem.o, RelPath(subId, audioFiles[pos]), audioFiles[pos])
      ELSE WithFile(elem.o, Null, Null)

\* variant: only the tracks that have an upload at their position are kept
tracksWithFiles_perUpload(subId, audioFiles, items) ==
  LET n == IF Len(items) <= Len(audioFiles) THEN Len(items) ELSE Len(audioFiles)
  IN  [pos \in 1..n |-> TrackWithFile(subId, audioFiles, items[pos], pos)]

tracksWithFiles(subId, audioFiles, items) ==
  [pos \in 1..Len(items) |-> TrackWithFile(subId, audioFiles, items[pos], pos)]

\* tracks.map(...) throws a TypeError when tracks is not an array (no map
\* method, or null) or when an element is null (t.fileName of null)
MapThrows(val) ==
  \/ val.t # "array"
  \/ \E i \in 1..Len(val.items) : val.items[i].t = "null"

\* the submission object assembled by the handler
Submission(subId, body, cover, audioFiles, items) ==
  [ id |-> subId,
    albumName |-> body.albumName,
    releaseDate |-> body.releaseDate,
    platforms |-> PlatformsOf(body.platforms),
    numSongs |-> NumSongsOf(body.numSongs),
    cover |-> IF cover # Null THEN RelPath(subId, cover) ELSE Null,
    tracks |-> tracksWithFiles(subId, audioFiles, items),
    createdAt |-> "now",
    status |-> "pending",
    adminNote |-> Null ]

(***************************************************************************)
(* State.                                                                  *)
(***************************************************************************)
VARIABLES
  dbFile,    \* the content of DB_FILE
  fault,     \* the failure the file system holds for a write of DB_FILE
  dirs,      \* submission directories that exist under UPLOADS_DIR
  files,     \* relative paths of the files that exist under UPLOADS_DIR
  nextId,    \* number of the next identifier uuidv4() hands out
  req,       \* the POST /submit requests in flight, by slot
  isAdmin,   \* req.session.isAdmin of every session
  resp,      \* the response sent by the handler that ran last
  okIds,     \* history: ids returned by POST /submit with { ok: true }
  authed,    \* history: sessions whose last login carried ADMIN_PASS and
             \* that have not logged out since
  overlap,   \* history: ids of ingestions that were in flight together
  tidal_users,  \* the localStorage item "tidal_users" of the origin
  page,      \* the sign-in demo in every open page: view and handlers
  events,    \* number of sign-up, sign-in and delete handlers started
  trackCount,       \* the track counter of the submission form
  numSongsInput,    \* the text in the numSongs input of the form
  tracksContainer,  \* the track entries rendered in the form
  coverInput,       \* the file chosen in the cover input of the form
  formMsg,          \* the text of the form's message element
  posts      \* the submit handlers of the form that are in flight

serverVars == <<dbFile, fault, dirs, files, nextId, req, isAdmin, resp, okIds,
                authed, overlap>>

demoVars == <<tidal_users, page, events>>

formVars == <<trackCount, numSongsInput, tracksContainer, coverInput, formMsg,
              posts>>

clientVars == <<demoVars, formVars>>

vars == <<serverVars, clientVars>>

(***************************************************************************)
(* The record store.  DB_FILE is missing, holds text that JSON.parse       *)
(* rejects, or holds a JSON text.  A JSON text is the tree of its tokens:  *)
(* null, a string, a number, an array of texts or an object mapping member *)
(* names to texts.                                                         *)
(***************************************************************************)
DNull == [t |-> "null", v |-> ""]
DStr(s) == [t |-> "str", v |-> s]
DNum(n) == [t |-> "num", v |-> n]
DArr(items) == [t |-> "arr", v |-> items]
DObj(members) == [t |-> "obj", v |-> members]

\* JSON.stringify of a string-or-null value
DText(x) == IF x = Null THEN DNull ELSE DStr(x)

\* JSON.stringify of a track object: a member whose value is undefined is
\* left out
StringifyTrack(o) ==
  DObj([k \in {m \in DOMAIN o : o[m] # Undefined} |-> DText(o[k])])

\* JSON.stringify of a submission object
StringifySub(sub) ==
  DObj([ id |-> DText(sub.id),
         albumName |-> DText(sub.albumName),
         releaseDate |-> DText(sub.releaseDate),
         platforms |-> DArr([i \in 1..Len(sub.platforms) |->
                              DText(sub.platforms[i])]),
         numSongs |-> DNum(sub.numSongs),
         cover |-> DText(sub.cover),
         tracks |-> DArr([i \in 1..Len(sub.tracks) |->
                           StringifyTrack(sub.tracks[i])]),
         createdAt |-> DText(sub.createdAt),
         status |-> DText(sub.status),
         adminNote |-> DText(sub.adminNote) ])

\* variant: the list is written last record first
Stringify_reversed(data) ==
  DArr([i \in 1..Len(data) |-> StringifySub(data[Len(data) + 1 - i])])

\* JSON.stringify(data, null, 2) of a list of submissions
Stringify(data) == DArr([i \in 1..Len(data) |-> StringifySub(data[i])])

\* JSON.parse of a JSON text
RECURSIVE Parse(_)
Parse(d) ==
  CASE d.t = "null" -> Null
    [] d.t \in {"str", "num"} -> d.v
    [] d.t = "arr" -> [i \in 1..Len(d.v) |-> Parse(d.v[i])]
    [] OTHER -> [k \in DOMAIN d.v |-> Parse(d.v[k])]

\* The state keeps of a JSON text in DB_FILE the value that JSON.parse makes
\* of it (texts that parse alike are not told apart), and of a text that
\* JSON.parse rejects the records that are still legible in it.
FileOf(doc) == [kind |-> "json", val |-> Parse(doc)]
FileMissing == [kind |-> "missing", val |-> <<>>]
FileGarbled(legible) == [kind |-> "garbled", val |-> legible]

\* variant: a text that JSON.parse rejects is read for its legible records
Load_lenient(file) == file.val

\* readDB on the file content: [] when readFileSync or JSON.parse throws
Load(file) == IF file.kind = "json" THEN file.val ELSE <<>>

readDB == Load(dbFile)

\* const db = readDB()
db == readDB

\* the failures of fs.writeFileSync(DB_FILE): none; the open is refused
\* (EACCES, EROFS) and the file is left as it was; the write fails after
\* the open has truncated the file (ENOSPC, EIO) and leaves a prefix of the
\* text, which JSON.parse rejects
Faults == {"none", "denied", "nospace"}

WriteThrows == fault # "none"

\* the content of DB_FILE after fs.writeFileSync(DB_FILE, JSON.stringify(data))
Saved(file, data) ==
  CASE fault = "none" -> FileOf(Stringify(data))
    [] fault = "denied" -> file
    [] OTHER -> FileGarbled(<<>>)

writeDB(data) == dbFile' = Saved(dbFile, data)

(***************************************************************************)
(* The sign-in demo of the pages.  Accounts are kept in the localStorage   *)
(* item "tidal_users", which the pages of the origin share; every open     *)
(* page runs its own handlers.  Texts are sequences of characters.         *)
(***************************************************************************)
Tabs == {"t1", "t2"}
MaxEvents == 3

EmailTexts ==
  { <<"a", "@", "b", ".", "c">>, <<" ", "A", "@", "b", ".", "c">>,
    <<"z", "@", "b", ".", "c">>, <<"a", "@", "b">>, <<>> }
PasswordTexts ==
  { <<"s", "e", "c", "r", "e", "t">>, <<"h", "u", "n", "t", "e", "r">>,
    <<"p", "w">> }
NameTexts == { <<>>, <<"N">> }

\* String.prototype.trim
RECURSIVE TrimStart(_)
TrimStart(s) == IF s # <<>> /\ Head(s) = " " THEN TrimStart(Tail(s)) ELSE s

RECURSIVE TrimEnd(_)
TrimEnd(s) ==
  IF s # <<>> /\ s[Len(s)] = " " THEN TrimEnd(SubSeq(s, 1, Len(s) - 1))
  ELSE s

Trim(s) == TrimEnd(TrimStart(s))

\* String.prototype.toLowerCase over the letters of the model
ToLowerCase(s) ==
  LET lower(c) ==
        CASE c = "A" -> "a" [] c = "B" -> "b" [] c = "C" -> "c"
          [] c = "N" -> "n" [] c = "Z" -> "z" [] OTHER -> c
  IN  [i \in 1..Len(s) |-> lower(s[i])]

\* email.split('@')[0]
RECURSIVE BeforeAt(_)
BeforeAt(s) ==
  IF s = <<>> \/ Head(s) = "@" THEN <<>> ELSE <<Head(s)>> \o BeforeAt(Tail(s))

\* s.charCodeAt(i) of the characters of the model
CharCode(c) ==
  CASE c = "c" -> 99 [] c = "e" -> 101 [] c = "h" -> 104 [] c = "n" -> 110
    [] c = "p" -> 112 [] c = "r" -> 114 [] c = "s" -> 115 [] c = "t" -> 116
    [] c = "u" -> 117 [] c = "w" -> 119 [] OTHER -> 63

\* a ^ b of two non-negative integers
RECURSIVE Xor(_, _)
Xor(a, b) ==
  IF a = 0 /\ b = 0 THEN 0
  ELSE (((a % 2) + (b % 2)) % 2) + 2 * Xor(a \div 2, b \div 2)

\* One round of _simpleHash on the 32-bit h kept as two 16-bit halves:
\* h ^= code, then h += (h<<1) + (h<<4) + (h<<7) + (h<<8) + (h<<24), which
\* is h * (2^24 + 403) modulo 2^32.
HashRound(h, code) ==
  LET lo == Xor(h.lo, code)
      p == lo * 403
  IN  [lo |-> p % 65536,
       hi |-> ((h.hi * 403) + (p \div 65536) + ((lo % 256) * 256)) % 65536]

RECURSIVE HashFrom(_, _)
HashFrom(h, s) ==
  IF s = <<>> THEN h ELSE HashFrom(HashRound(h, CharCode(Head(s))), Tail(s))

HexDigit(d) ==
  CASE d = 0 -> "0" [] d = 1 -> "1" [] d = 2 -> "2" [] d = 3 -> "3"
    [] d = 4 -> "4" [] d = 5 -> "5" [] d = 6 -> "6" [] d = 7 -> "7"
    [] d = 8 -> "8" [] d = 9 -> "9" [] d = 10 -> "a" [] d = 11 -> "b"
    [] d = 12 -> "c" [] d = 13 -> "d" [] d = 14 -> "e" [] OTHER -> "f"

\* the four hexadecimal digits of a 16-bit half
Hex16(n) ==
  <<HexDigit(n \div 4096), HexDigit((n \div 256) % 16),
    HexDigit((n \div 16) % 16), HexDigit(n % 16)>>

RECURSIVE DropZeros(_)
DropZeros(s) ==
  IF Len(s) > 1 /\ Head(s) = "0" THEN DropZeros(Tail(s)) ELSE s

\* _simpleHash(s): (h >>> 0).toString(16) from h = 2166136261 = 0x811c9dc5
_simpleHash(s) ==
  LET h == HashFrom([hi |-> 33052, lo |-> 40389], s)
  IN  DropZeros(Hex16(h.hi) \o Hex16(h.lo))

\* JSON.stringify of the users object
StringifyUsers(users) ==
  DObj([e \in DOMAIN users |->
          DObj([k \in DOMAIN users[e] |-> DStr(users[e][k])])])

\* _loadUsers: {} when the item is absent or JSON.parse throws
_loadUsers == IF tidal_users.kind = "json" THEN tidal_users.val ELSE <<>>

\* _saveUsers
_saveUsers(users) == tidal_users' = FileOf(StringifyUsers(users))

\* the account object of handleSignUp; createdAt, which no handler reads,
\* is left out
Account(name, email, password) ==
  [name |-> IF name # <<>> THEN name ELSE BeforeAt(email),
   email |-> email,
   passwordHash |-> _simpleHash(password)]

NoHandler == [pc |-> "idle"]
NoMsg == [el |-> "none", text |-> ""]

\* showMessage(el, type, text)
Msg(el, text) == [el |-> el, text |-> text]

\* the page after load: init() ends with showForm('signin')
FreshPage ==
  [view |-> "signin", title |-> <<>>, msg |-> NoMsg,
   signup |-> NoHandler, signin |-> NoHandler, del |-> NoHandler]

\* a handler of page t can start: no prompt or confirm dialog of the page
\* is open
Ready(t) == page[t].del.pc = "idle"

\* click on #show-signin or #show-signup: showForm clears the messages
ShowFormClick(t, name) ==
  /\ Ready(t)
  /\ page[t].view # name
  /\ page' = [page EXCEPT ![t].view = name, ![t].msg = NoMsg]
  /\ UNCHANGED <<tidal_users, events>>
  /\ UNCHANGED <<serverVars, formVars>>

\* handleSignUp up to its await: the submit button of the visible sign-up
\* form is enabled only while no sign-up of the page is in flight
SignUpSubmit(t, nameText, emailText, password, confirm) ==
  LET name == Trim(nameText)
      email == ToLowerCase(Trim(emailText))
      users == _loadUsers
      error(text) == page' = [page EXCEPT ![t].msg = Msg("signup", text)]
  IN
  /\ Ready(t)
  /\ page[t].view = "signup"
  /\ page[t].signup.pc = "idle"
  /\ events < MaxEvents
  /\ events' = events + 1
  /\ IF email = <<>> \/ password = <<>> \/ confirm = <<>>
       THEN error("Please fill all required fields")
     ELSE IF (\A i \in 1..Len(email) : email[i] # "@") \/ Len(email) < 5
       THEN error("Please enter a valid email")
     ELSE IF Len(password) < 6
       THEN error("Password must be at least 6 characters")
     ELSE IF password # confirm
       THEN error("Passwords do not match")
     ELSE IF email \in DOMAIN users
       THEN error("An account with that email already exists")
     ELSE page' = [page EXCEPT
            ![t].signup = [pc |-> "delay", name |-> name, email |-> email,
                           password |-> password, users |-> users],
            \* a sign-in of the page that is in flight began earlier
            ![t].signin = IF @.pc = "delay" THEN [@ EXCEPT !.later = FALSE]
                          ELSE @]
  /\ UNCHANGED tidal_users
  /\ UNCHANGED <<serverVars, formVars>>

\* handleSignUp after its await delay(700): the timer cannot fire before
\* the timer of a sign-in of the page that began earlier (600 ms)
SignUpSave(t) ==
  LET s == page[t].signup
      account == Account(s.name, s.email, s.password)
      \* users[email] = account on the object loaded before the delay
      users == [e \in DOMAIN s.users \cup {s.email} |->
                  IF e = s.email THEN account ELSE s.users[e]]
  IN
  /\ Ready(t)
  /\ s.pc = "delay"
  /\ page[t].signin.pc = "delay" => page[t].signin.later
  /\ _saveUsers(users)
  /\ page' = [page EXCEPT ![t].signup = NoHandler,
                          ![t].title = <<"Welcome, ">> \o users[s.email].name,
                          ![t].view = "welcome",
                          ![t].msg = NoMsg]
  /\ UNCHANGED events
  /\ UNCHANGED <<serverVars, formVars>>

\* handleSignIn up to its await
SignInSubmit(t, emailText, password) ==
  LET email == ToLowerCase(Trim(emailText)) IN
  /\ Ready(t)
  /\ page[t].view = "signin"
  /\ page[t].signin.pc = "idle"
  /\ events < MaxEvents
  /\ events' = events + 1
  /\ IF email = <<>> \/ password = <<>>
       THEN page' = [page EXCEPT
              ![t].msg = Msg("signin", "Please enter email and password")]
     ELSE page' = [page EXCEPT
            ![t].signin = [pc |-> "delay", email |-> email,
                           password |-> password, users |-> _loadUsers,
                           later |-> page[t].signup.pc = "delay"]]
  /\ UNCHANGED tidal_users
  /\ UNCHANGED <<serverVars, formVars>>

\* handleSignIn after its await delay(600)
SignInFinish(t) ==
  LET s == page[t].signin IN
  /\ Ready(t)
  /\ s.pc = "delay"
  /\ IF \/ s.email \notin DOMAIN s.users
        \/ s.users[s.email].passwordHash # _simpleHash(s.password)
       THEN page' = [page EXCEPT
              ![t].signin = NoHandler,
              ![t].msg = Msg("signin", "Invalid email or password")]
     ELSE page' = [page EXCEPT
            ![t].signin = NoHandler,
            ![t].title = <<"Welcome, ">> \o s.users[s.email].name,
            ![t].view = "welcome",
            ![t].msg = NoMsg]
  /\ UNCHANGED <<tidal_users, events>>
  /\ UNCHANGED <<serverVars, formVars>>

\* handleSignOut: the message is cleared at once by showForm
handleSignOut(t) ==
  /\ Ready(t)
  /\ page[t].view = "welcome"
  /\ page' = [page EXCEPT ![t].view = "signin", ![t].msg = NoMsg]
  /\ UNCHANGED <<tidal_users, events>>
  /\ UNCHANGED <<serverVars, formVars>>

\* handleDeleteAccount up to its confirm dialog; answer is the text typed
\* into the prompt, empty when the prompt was cancelled
DeleteAsk(t, answer) ==
  LET email == ToLowerCase(Trim(answer))
      users == _loadUsers
  IN
  /\ Ready(t)
  /\ page[t].view = "welcome"
  /\ events < MaxEvents
  /\ events' = events + 1
  /\ IF answer = <<>>
       THEN UNCHANGED page
     ELSE IF email \notin DOMAIN users
       THEN page' = [page EXCEPT
              ![t].msg = Msg("welcome", "No account found for that email")]
     ELSE page' = [page EXCEPT
            ![t].del = [pc |-> "confirm", email |-> email, users |-> users]]
  /\ UNCHANGED tidal_users
  /\ UNCHANGED <<serverVars, formVars>>

\* handleDeleteAccount from the answer to its confirm dialog; while the
\* dialog is open the other pages keep running
DeleteConfirm(t, ok) ==
  LET d == page[t].del IN
  /\ d.pc = "confirm"
  /\ IF ok
       THEN /\ _saveUsers([e \in DOMAIN d.users \ {d.email} |-> d.users[e]])
            /\ page' = [page EXCEPT ![t].del = NoHandler,
                                    ![t].view = "signin",
                                    ![t].msg = NoMsg]
       ELSE /\ UNCHANGED tidal_users
            /\ page' = [page EXCEPT ![t].del = NoHandler]
  /\ UNCHANGED events
  /\ UNCHANGED <<serverVars, formVars>>

(***************************************************************************)
(* The submission form of the page: the track counter, the numSongs input, *)
(* the rendered track entries, the cover input and the submit handlers in  *)
(* flight.  Of a track entry the title and the chosen audio file are kept; *)
(* the featured and explicit fields, which the handler only copies, are    *)
(* left out, and so are the album fields and the cover-info text.          *)
(***************************************************************************)
MaxCount == 2
NumPosts == 1

\* String(n) of a non-negative integer
RECURSIVE NumberToString(_)
NumberToString(n) ==
  LET digit(d) ==
        CASE d = 0 -> "0" [] d = 1 -> "1" [] d = 2 -> "2" [] d = 3 -> "3"
          [] d = 4 -> "4" [] d = 5 -> "5" [] d = 6 -> "6" [] d = 7 -> "7"
          [] d = 8 -> "8" [] OTHER -> "9"
  IN  IF n < 10 THEN <<digit(n)>>
      ELSE NumberToString(n \div 10) \o <<digit(n % 10)>>

\* texts the user leaves in the numSongs input
TypedNumSongs ==
  {NumberToString(n) : n \in 0..(MaxCount + 1)}
    \cup { <<>>, <<"a">>, <<"-", "1">>, <<"0", "2">>, <<"2", ".", "7">>,
           <<"2", "a">>, <<"1", "e", "1">> }

TitleTexts == { <<>>, <<" ">>, <<" ", "T">> }
CoverChoices == {Null, "small.png", "big.png"}

\* createTrack: an entry with empty fields
createTrack(index) == [title |-> <<>>, file |-> Null]

\* renderTracks: the container is emptied and filled with new entries
renderTracks(count) == [i \in 1..count |-> createTrack(i - 1)]

\* parseInt(numSongsInput.value || '1', 10)
CountOf(text) == ParseInt(IF text = <<>> THEN <<"1">> ELSE text)

\* the FormData of the submit handler: tracks is the array made of the
\* entries, trackFiles the chosen files in the order of the entries
FormData(count, entries, cover) ==
  [numSongs |-> NumberToString(count),
   tracks |-> [i \in 1..Len(entries) |->
                 [index |-> i, title |-> Trim(entries[i].title),
                  fileName |-> entries[i].file]],
   cover |-> cover,
   trackFiles |-> SelectSeq([i \in 1..Len(entries) |-> entries[i].file],
                            LAMBDA f : f # Null)]

NoPost == [pc |-> "idle"]

\* click on #add-track
AddTrack ==
  /\ trackCount < MaxCount
  /\ trackCount' = trackCount + 1
  /\ numSongsInput' = NumberToString(trackCount + 1)
  /\ tracksContainer' = renderTracks(trackCount + 1)
  /\ UNCHANGED <<coverInput, formMsg, posts>>
  /\ UNCHANGED <<serverVars, demoVars>>

\* click on #remove-track
RemoveTrack ==
  /\ IF trackCount <= 1
       THEN UNCHANGED <<trackCount, numSongsInput, tracksContainer>>
       ELSE /\ trackCount' = trackCount - 1
            /\ numSongsInput' = NumberToString(trackCount - 1)
            /\ tracksContainer' = renderTracks(trackCount - 1)
  /\ UNCHANGED <<coverInput, formMsg, posts>>
  /\ UNCHANGED <<serverVars, demoVars>>

\* the user leaves another text in the numSongs input: its change listener
NumSongsChange(text) ==
  LET v == CountOf(text) IN
  /\ text # numSongsInput
  /\ IF v.nan \/ v.v < 1
       THEN /\ numSongsInput' = NumberToString(trackCount)
            /\ UNCHANGED <<trackCount, tracksContainer>>
       ELSE /\ v.v <= MaxCount
            /\ numSongsInput' = text
            /\ trackCount' = v.v
            /\ tracksContainer' = renderTracks(v.v)
  /\ UNCHANGED <<coverInput, formMsg, posts>>
  /\ UNCHANGED <<serverVars, demoVars>>

\* the user fills the fields of the entry at position i
EditTrack(i, title, file) ==
  /\ i \in 1..Len(tracksContainer)
  /\ tracksContainer' =
       [tracksContainer EXCEPT ![i] = [title |-> title, file |-> file]]
  /\ UNCHANGED <<trackCount, numSongsInput, coverInput, formMsg, posts>>
  /\ UNCHANGED <<serverVars, demoVars>>

\* the user chooses a cover file or clears the choice
ChooseCover(cover) ==
  /\ cover # coverInput
  /\ coverInput' = cover
  /\ UNCHANGED <<trackCount, numSongsInput, tracksContainer, formMsg, posts>>
  /\ UNCHANGED <<serverVars, demoVars>>

\* the submit listener up to its await of the cover image
SubmitClick(p) ==
  /\ posts[p].pc = "idle"
  /\ IF coverInput = Null
       THEN /\ formMsg' = "Please select an album cover"
            /\ UNCHANGED posts
       ELSE /\ formMsg' = "Submitting..."
            /\ posts' = [posts EXCEPT ![p] = [pc |-> "image",
                                              coverFile |-> coverInput]]
  /\ UNCHANGED <<trackCount, numSongsInput, tracksContainer, coverInput>>
  /\ UNCHANGED <<serverVars, demoVars>>

\* the submit listener from the loaded cover image to its fetch
SubmitSend(p) ==
  LET fd == FormData(trackCount, tracksContainer, posts[p].coverFile)
      untitled == {i \in 1..Len(fd.tracks) : fd.tracks[i].title = <<>>}
      \* the first track without a title, 0 when every track has one
      bad == IF untitled = {} THEN 0
             ELSE CHOOSE i \in untitled : \A j \in untitled : i <= j
  IN
  /\ posts[p].pc = "image"
  /\ IF posts[p].coverFile # "big.png"   \* smaller than 3000x3000
       THEN /\ formMsg' = "Cover image must be at least 3000x3000"
            /\ posts' = [posts EXCEPT ![p] = NoPost]
     ELSE IF bad # 0
       THEN /\ formMsg' = "Please enter a title for track " \o ToString(bad)
            /\ posts' = [posts EXCEPT ![p] = NoPost]
     ELSE /\ UNCHANGED formMsg
          /\ posts' = [posts EXCEPT ![p] =
               [pc |-> "fetch", body |-> fd]]
  /\ UNCHANGED <<trackCount, numSongsInput, tracksContainer, coverInput>>
  /\ UNCHANGED <<serverVars, demoVars>>

\* the submit listener after its fetch: outcome is "ok" for a 2xx answer,
\* "failed" for another answer and "network" when fetch or resp.json throws
SubmitDone(p, outcome) ==
  /\ posts[p].pc = "fetch"
  /\ posts' = [posts EXCEPT ![p] = NoPost]
  /\ IF outcome = "ok"
       THEN /\ formMsg' = "Submission successful"
            /\ tracksContainer' = renderTracks(1)
            /\ trackCount' = 1
            /\ numSongsInput' = <<"1">>
            /\ coverInput' = Null
       ELSE /\ formMsg' = IF outcome = "failed" THEN "Submission failed"
                          ELSE "Network error"
            /\ UNCHANGED <<trackCount, numSongsInput, tracksContainer,
                           coverInput>>
  /\ UNCHANGED <<serverVars, demoVars>>

\* the pages after load: no stored account, the sign-in form shown, the
\* numSongs input at its default 1
ClientInit ==
  /\ tidal_users = FileMissing
  /\ page = [t \in Tabs |-> FreshPage]
  /\ events = 0
  /\ numSongsInput = <<"1">>
  /\ trackCount = CountOf(<<"1">>).v
  /\ tracksContainer = renderTracks(CountOf(<<"1">>).v)
  /\ coverInput = Null
  /\ formMsg = ""
  /\ posts = [p \in 1..NumPosts |-> NoPost]

IdleReq == [pc |-> "idle", subId |-> "", body |-> <<>>, cover |-> Null,
            audio |-> <<>>, written |-> 0]

\* the file parts of a request in the order multer stores them
Parts(q) == (IF q.cover # Null THEN <<q.cover>> ELSE <<>>) \o q.audio

NoResp == [op |-> "none", code |-> 0]

\* DB_FILE of a fresh installation: the startup code has written []
EmptyFile == FileOf(Stringify(<<>>))

Init ==
  /\ dbFile = EmptyFile
  /\ fault = "none"
  /\ dirs = {}
  /\ files = {}
  /\ nextId = 1
  /\ req = [r \in Reqs |-> IdleReq]
  /\ isAdmin = [c \in Sessions |-> FALSE]
  /\ resp = NoResp
  /\ okIds = {}
  /\ authed = {}
  /\ overlap = {}
  /\ ClientInit

(***************************************************************************)
(* POST /submit.  The first middleware draws the identifier, multer then   *)
(* stores the file parts one by one (asynchronously, so that the uploads   *)
(* of several requests interleave), and the final handler runs to          *)
(* completion in one turn of the event loop.                               *)
(***************************************************************************)
InFlight == {r \in Reqs : req[r].pc # "idle"}

\* variant: one identifier, drawn at startup, serves every request
SubmitBegin_oneId(r, body, cover, audio) ==
  /\ req[r].pc = "idle"
  /\ req' = [req EXCEPT ![r] = [pc |-> "uploading", subId |-> IdOf(1),
                                body |-> body, cover |-> cover,
                                audio |-> audio, written |-> 0]]
  /\ nextId' = nextId + 1
  /\ overlap' = IF InFlight = {} THEN overlap
                ELSE overlap \cup {IdOf(1)}
                             \cup {req[o].subId : o \in InFlight}
  /\ UNCHANGED <<dbFile, fault, dirs, files, isAdmin, resp, okIds, authed>>
  /\ UNCHANGED clientVars

\* the first middleware of POST /submit: req._subId = uuidv4(), a fresh
\* identifier
SubmitBegin(r, body, cover, audio) ==
  /\ req[r].pc = "idle"
  /\ req' = [req EXCEPT ![r] = [pc |-> "uploading", subId |-> IdOf(nextId),
                                body |-> body, cover |-> cover,
                                audio |-> audio, written |-> 0]]
  /\ nextId' = nextId + 1
  /\ overlap' = IF InFlight = {} THEN overlap
                ELSE overlap \cup {IdOf(nextId)}
                             \cup {req[o].subId : o \in InFlight}
  /\ UNCHANGED <<dbFile, fault, dirs, files, isAdmin, resp, okIds, authed>>
  /\ UNCHANGED clientVars

\* multer's diskStorage: destination() creates the directory of the
\* submission when absent, filename() keeps the original name
StoreFile(r) ==
  LET q == req[r] IN
  /\ q.pc = "uploading"
  /\ q.written < Len(Parts(q))
  /\ dirs' = dirs \cup {q.subId}
  /\ files' = files \cup {RelPath(q.subId, Parts(q)[q.written + 1])}
  /\ req' = [req EXCEPT ![r].written = @ + 1]
  /\ UNCHANGED <<dbFile, fault, nextId, isAdmin, resp, okIds, authed, overlap>>
  /\ UNCHANGED clientVars

\* variant: the new record is saved as the whole list
SubmitResult_overwrite(q, data) ==
  LET parsed == ParseTracks(q.body.tracks) IN
  IF ~parsed.ok
    THEN [code |-> 400, db |-> data]
  ELSE IF MapThrows(parsed.val)
    THEN [code |-> 500, db |-> data]
  ELSE [code |-> 200,
        db |-> <<Submission(q.subId, q.body, q.cover, q.audio,
                            parsed.val.items)>>]

\* the response and the new record list of the final handler
SubmitResult(q, data) ==
  LET parsed == ParseTracks(q.body.tracks) IN
  IF ~parsed.ok
    THEN [code |-> 400, db |-> data]
  ELSE IF MapThrows(parsed.val)
    THEN [code |-> 500, db |-> data]
  ELSE [code |-> 200,
        db |-> Append(data, Submission(q.subId, q.body, q.cover, q.audio,
                                       parsed.val.items))]

\* the final handler of POST /submit; an exception of writeDB is caught by
\* the handler's try/catch and answered 500
SubmitHandler(r) ==
  LET q == req[r]
      res == SubmitResult(q, readDB)
      code == IF res.code = 200 /\ WriteThrows THEN 500 ELSE res.code
  IN
  /\ q.pc = "uploading"
  /\ q.written = Len(Parts(q))
  /\ IF res.code = 200 THEN writeDB(res.db) ELSE UNCHANGED dbFile
  /\ resp' = [op |-> "submit", code |-> code, id |-> q.subId,
              ok |-> code = 200,
              input |-> [body |-> q.body, cover |-> q.cover, audio |-> q.audio]]
  /\ okIds' = IF code = 200 THEN okIds \cup {q.subId} ELSE okIds
  /\ req' = [req EXCEPT ![r] = IdleReq]
  /\ UNCHANGED <<fault, dirs, files, nextId, isAdmin, authed, overlap>>
  /\ UNCHANGED clientVars

(***************************************************************************)
(* Admin session: login, logout and the requireAdmin gate.                 *)
(***************************************************************************)
\* variant: one flag for the whole server instead of one per session
requireAdmin_anySession(c) == \E s \in DOMAIN isAdmin : isAdmin[s]

requireAdmin(c) == isAdmin[c]

Redirect(op, c, loc) == [op |-> op, sess |-> c, code |-> 302, loc |-> loc]

\* variant: the comparison ignores letter case
Login_anyCase(c, password) ==
  LET pass == IF Truthy(password) THEN password ELSE "" IN
  /\ IF pass \in {ADMIN_PASS, "Adminpass"}
       THEN /\ isAdmin' = [isAdmin EXCEPT ![c] = TRUE]
            /\ resp' = [op |-> "login", sess |-> c, code |-> 302,
                        loc |-> "/admin/dashboard", password |-> password]
       ELSE /\ isAdmin' = isAdmin
            /\ resp' = [op |-> "login", sess |-> c, code |-> 302,
                        loc |-> "/admin/login?err=1", password |-> password]
  /\ authed' = IF password = ADMIN_PASS THEN authed \cup {c} ELSE authed
  /\ UNCHANGED <<dbFile, fault, dirs, files, nextId, req, okIds, overlap>>
  /\ UNCHANGED clientVars

\* POST /admin/login with form field password (Undefined when missing)
Login(c, password) ==
  LET pass == IF Truthy(password) THEN password ELSE "" IN
  /\ IF pass = ADMIN_PASS
       THEN /\ isAdmin' = [isAdmin EXCEPT ![c] = TRUE]
            /\ resp' = [op |-> "login", sess |-> c, code |-> 302,
                        loc |-> "/admin/dashboard", password |-> password]
       ELSE /\ isAdmin' = isAdmin
            /\ resp' = [op |-> "login", sess |-> c, code |-> 302,
                        loc |-> "/admin/login?err=1", password |-> password]
  /\ authed' = IF password = ADMIN_PASS THEN authed \cup {c} ELSE authed
  /\ UNCHANGED <<dbFile, fault, dirs, files, nextId, req, okIds, overlap>>
  /\ UNCHANGED clientVars

\* GET /admin/logout: the session is destroyed, the next request of the
\* client starts a fresh session without isAdmin
Logout(c) ==
  /\ isAdmin' = [isAdmin EXCEPT ![c] = FALSE]
  /\ resp' = Redirect("logout", c, "/admin/login")
  /\ authed' = authed \ {c}
  /\ UNCHANGED <<dbFile, fault, dirs, files, nextId, req, okIds, overlap>>
  /\ UNCHANGED clientVars

\* GET /admin/dashboard
Dashboard(c) ==
  /\ resp' = IF requireAdmin(c)
               THEN [op |-> "dashboard", sess |-> c, code |-> 200,
                     page |-> "admin-dashboard.html"]
               ELSE Redirect("dashboard", c, "/admin/login")
  /\ UNCHANGED <<dbFile, fault, dirs, files, nextId, req, isAdmin, okIds, authed, overlap>>
  /\ UNCHANGED clientVars

(***************************************************************************)
(* Review routes.                                                          *)
(***************************************************************************)
\* db.find(s => s.id === id): position of the first such record, 0 if none
Find(data, id) ==
  LET hits == {i \in 1..Len(data) : data[i].id = id}
  IN  IF hits = {} THEN 0 ELSE CHOOSE i \in hits : \A j \in hits : i <= j

\* the stored record carrying id (the first one, as db.find returns it)
Stored(data, id) == data[Find(data, id)]

\* GET /admin/api/submissions
List(c) ==
  /\ resp' = IF requireAdmin(c)
               THEN [op |-> "list", sess |-> c, code |-> 200, data |-> readDB]
               ELSE Redirect("list", c, "/admin/login")
  /\ UNCHANGED <<dbFile, fault, dirs, files, nextId, req, isAdmin, okIds, authed, overlap>>
  /\ UNCHANGED clientVars

\* GET /admin/api/submissions/:id
GetOne(c, id) ==
  /\ resp' = IF ~requireAdmin(c) THEN Redirect("get", c, "/admin/login")
             ELSE IF Find(readDB, id) = 0
               THEN [op |-> "get", sess |-> c, code |-> 404, id |-> id]
             ELSE [op |-> "get", sess |-> c, code |-> 200, id |-> id,
                   data |-> <<readDB[Find(readDB, id)]>>]
  /\ UNCHANGED <<dbFile, fault, dirs, files, nextId, req, isAdmin, okIds, authed, overlap>>
  /\ UNCHANGED clientVars

\* variant: the list is rebuilt from the updated record alone
Transition_onlyRecord(data, i, outcome, note) ==
  <<[data[i] EXCEPT !.status = outcome,
                    !.adminNote = IF Truthy(note) THEN note ELSE Null]>>

\* variant: a note already recorded is kept
Transition_keepNote(data, i, outcome, note) ==
  [data EXCEPT ![i].status = outcome,
               ![i].adminNote = IF Truthy(@) THEN @
                                ELSE IF Truthy(note) THEN note ELSE Null]

\* variant: repeating the outcome a record already holds withdraws it
Transition_withdraw(data, i, outcome, note) ==
  [data EXCEPT ![i].status = IF @ = outcome THEN "pending" ELSE outcome,
               ![i].adminNote = IF Truthy(note) THEN note ELSE Null]

\* sub.status = outcome; sub.adminNote = req.body.note || null
Transition(data, i, outcome, note) ==
  [data EXCEPT ![i].status = outcome,
               ![i].adminNote = IF Truthy(note) THEN note ELSE Null]

\* history carried by the response of a transition: the adminNote left by
\* the response before it when that was a successful transition to the same
\* outcome of the same id, Undefined otherwise
Repeat(op, id) ==
  IF resp.op = op /\ resp.code = 200 /\ resp.id = id
    THEN Stored(readDB, id).adminNote
    ELSE Undefined

\* variant: only a pending submission is reviewed, a reviewed one answers 409
Review_pendingOnly(op, outcome, c, id, note) ==
  LET i == Find(readDB, id) IN
  /\ IF ~requireAdmin(c)
       THEN /\ resp' = Redirect(op, c, "/admin/login")
            /\ UNCHANGED dbFile
     ELSE IF i = 0
       THEN /\ resp' = [op |-> op, sess |-> c, code |-> 404, id |-> id]
            /\ UNCHANGED dbFile
     ELSE IF readDB[i].status # "pending"
       THEN /\ resp' = [op |-> op, sess |-> c, code |-> 409, id |-> id]
            /\ UNCHANGED dbFile
     ELSE /\ writeDB(Transition(readDB, i, outcome, note))
          /\ resp' = IF WriteThrows
                       THEN [op |-> op, sess |-> c, code |-> 500, id |-> id]
                     ELSE [op |-> op, sess |-> c, code |-> 200, id |-> id,
                           note |-> note, first |-> Repeat(op, id),
                           from |-> readDB[i].status]
  /\ UNCHANGED <<fault, dirs, files, nextId, req, isAdmin, okIds, authed, overlap>>
  /\ UNCHANGED clientVars

\* the approve and reject handlers; the response carries as history the
\* status the record had when the handler read it (from); an exception of
\* writeDB is not caught and Express answers 500
Review(op, outcome, c, id, note) ==
  LET i == Find(readDB, id) IN
  /\ IF ~requireAdmin(c)
       THEN /\ resp' = Redirect(op, c, "/admin/login")
            /\ UNCHANGED dbFile
     ELSE IF i = 0
       THEN /\ resp' = [op |-> op, sess |-> c, code |-> 404, id |-> id]
            /\ UNCHANGED dbFile
     ELSE /\ writeDB(Transition(readDB, i, outcome, note))
          /\ resp' = IF WriteThrows
                       THEN [op |-> op, sess |-> c, code |-> 500, id |-> id]
                     ELSE [op |-> op, sess |-> c, code |-> 200, id |-> id,
                           note |-> note, first |-> Repeat(op, id),
                           from |-> readDB[i].status]
  /\ UNCHANGED <<fault, dirs, files, nextId, req, isAdmin, okIds, authed, overlap>>
  /\ UNCHANGED clientVars

\* POST /admin/api/submissions/:id/approve
Approve(c, id, note) == Review("approve", "approved", c, id, note)

\* POST /admin/api/submissions/:id/reject
Reject(c, id, note) == Review("reject", "rejected", c, id, note)

(***************************************************************************)
(* GET /admin/download/:id.  The archive is the sequence of its entries.   *)
(***************************************************************************)
AllNames == AudioNames \cup CoverNames

\* path.basename / path.extname of a stored path "<subId>/<name>"
Basename(p) ==
  CHOOSE n \in AllNames : \E k \in 0..MaxSubs : p = RelPath(IdOf(k), n)
Extname(p) == IF Basename(p) \in AudioNames THEN ".mp3" ELSE ".png"

\* archive.append(JSON.stringify(sub, null, 2), { name: 'metadata.json' })
MetaEntry(sub) ==
  [name |-> "metadata.json", path |-> "", text |-> StringifySub(sub)]

\* archive.file(path, { name })
FileEntry(name, path) == [name |-> name, path |-> path, text |-> DNull]

\* variant: the cover is left out of the archive
CoverEntries_never(sub) == <<>>

CoverEntries(sub) ==
  IF Truthy(sub.cover) /\ sub.cover \in files
    THEN <<FileEntry(Basename(sub.cover), sub.cover)>>
    ELSE <<>>

\* variant: a track file is added without looking whether it exists
RECURSIVE TrackEntries_unchecked(_, _)
TrackEntries_unchecked(tracks, pos) ==
  IF pos > Len(tracks) THEN <<>>
  ELSE LET t == tracks[pos]
           f == Get(t, "file")
           n == Get(t, "originalFileName")
           e == IF Truthy(f)
                  THEN <<FileEntry(IF Truthy(n) THEN n
                                   ELSE "track-" \o ToString(pos) \o Extname(f),
                                   f)>>
                  ELSE <<>>
       IN  e \o TrackEntries_unchecked(tracks, pos + 1)

RECURSIVE TrackEntries(_, _)
TrackEntries(tracks, pos) ==
  IF pos > Len(tracks) THEN <<>>
  ELSE LET t == tracks[pos]
           f == Get(t, "file")
           n == Get(t, "originalFileName")
           e == IF Truthy(f) /\ f \in files
                  THEN <<FileEntry(IF Truthy(n) THEN n
                                   ELSE "track-" \o ToString(pos) \o Extname(f),
                                   f)>>
                  ELSE <<>>
       IN  e \o TrackEntries(tracks, pos + 1)

Archive(sub) ==
  <<MetaEntry(sub)>> \o CoverEntries(sub) \o TrackEntries(sub.tracks, 1)

Download(c, id) ==
  LET i == Find(readDB, id) IN
  /\ resp' = IF ~requireAdmin(c) THEN Redirect("download", c, "/admin/login")
             ELSE IF i = 0
               THEN [op |-> "download", sess |-> c, code |-> 404, id |-> id,
                     text |-> "Not found"]
             ELSE IF readDB[i].id \notin dirs
               THEN [op |-> "download", sess |-> c, code |-> 404, id |-> id,
                     text |-> "Files missing"]
             ELSE [op |-> "download", sess |-> c, code |-> 200, id |-> id,
                   archive |-> Archive(readDB[i])]
  /\ UNCHANGED <<dbFile, fault, dirs, files, nextId, req, isAdmin, okIds, authed, overlap>>
  /\ UNCHANGED clientVars

(***************************************************************************)
(* Request inputs.                                                         *)
(***************************************************************************)
SeqsUpTo(S, n) == UNION {[1..k -> S] : k \in 0..n}

Body(tracks, numSongs) ==
  [albumName |-> "Test", releaseDate |-> "2024-01-01",
   platforms |-> <<"spotify", "">>, numSongs |-> numSongs, tracks |-> tracks]

Input(tracks, numSongs, cover, audio) ==
  [body |-> Body(tracks, numSongs), cover |-> cover, audio |-> audio]

\* the scenario of the form client: one titled track naming its upload
OneTrack == RawJson(JArray(<<ObjElem([title |-> "A", fileName |-> "a.mp3"])>>))

FormInput == Input(OneTrack, <<"1">>, Null, <<"a.mp3">>)

SmallInputs == {FormInput, Input(RawMalformed, <<"1">>, Null, <<>>)}

AdminIds == AllIds \cup {UnknownId}

\* declared track objects: fileName missing, null, naming an upload or
\* naming no upload; with or without file/originalFileName keys of their own
FileNameChoices == {Undefined, Null, "x.mp3"} \cup AudioNames

TrackObj(fn, extra) ==
  LET base == IF fn = Undefined THEN [title |-> "T"]
              ELSE [title |-> "T", fileName |-> fn]
  IN  IF extra THEN [file |-> "own", originalFileName |-> "own"] @@ base
      ELSE base

Elems ==
  {ObjElem(TrackObj(fn, extra)) : fn \in FileNameChoices, extra \in BOOLEAN}
    \cup {NumElem, NullElem}

RichTracks ==
  {RawMissing, RawMalformed}
    \cup {RawJson(JOther(t)) : t \in {"object", "number", "string", "null"}}
    \cup {RawJson(JArray(items)) : items \in SeqsUpTo(Elems, MaxTracks)}

\* the declared count of the rich requests (NumSongsForms has the others)
NumSongsTexts == {<<"7">>}

RichInputs ==
  { Input(tr, n, cover, audio) :
      tr \in RichTracks, n \in NumSongsTexts,
      cover \in CoverNames \cup {Null},
      audio \in SeqsUpTo(AudioNames, MaxUploads) }

(***************************************************************************)
(* The server: concurrent ingestions of the form client's request and the  *)
(* review of the stored records by one admin session.  The routes that     *)
(* only read the store are part of NextAuth, NextFault and NextExport.     *)
(***************************************************************************)
\* a new request takes the lowest free slot (the slots are interchangeable)
Begin(inputs, cap) ==
  /\ nextId <= cap
  /\ \E r \in Reqs, i \in inputs :
       /\ \A o \in Reqs : o < r => req[o].pc # "idle"
       /\ SubmitBegin(r, i.body, i.cover, i.audio)

Upload == \E r \in Reqs : StoreFile(r)

Handle == \E r \in Reqs : SubmitHandler(r)

Auth(S, P) ==
  \E c \in S :
    \/ \E p \in P : Login(c, p)
    \/ Logout(c)

Reads(S, I) ==
  \E c \in S :
    \/ Dashboard(c)
    \/ List(c)
    \/ \E id \in I : GetOne(c, id)
    \/ \E id \in I : Download(c, id)

Reviews(S, I, NA, NR) ==
  \E c \in S :
    \/ \E id \in I, note \in NA : Approve(c, id, note)
    \/ \E id \in I, note \in NR : Reject(c, id, note)

Next ==
  \/ Begin({FormInput}, MaxSubs)
  \/ Upload
  \/ Handle
  \/ Auth({"s1"}, {ADMIN_PASS, ""})
  \/ Reviews({"s1"}, AllIds, {"", "n1", "n2"}, {""})

Spec == Init /\ [][Next]_vars

(***************************************************************************)
(* The session gate: every session, password and id, on a store of at most *)
(* AuthSubs records.                                                       *)
(***************************************************************************)
NextAuth ==
  \/ Begin(SmallInputs, AuthSubs)
  \/ Upload
  \/ Handle
  \/ Auth(Sessions, Passwords \cup {Undefined})
  \/ Reads(Sessions, AdminIds)
  \/ Reviews(Sessions, AdminIds, Notes, {""})

SpecAuth == Init /\ [][NextAuth]_vars

(***************************************************************************)
(* One ingestion on every request of RichInputs.  The run starts after     *)
(* the first middleware of POST /submit has drawn the identifier, on an    *)
(* empty store or on the store left by one earlier ingestion of the form   *)
(* client.                                                                 *)
(***************************************************************************)
SeedId == IdOf(0)
SeedSub ==
  Submission(SeedId, FormInput.body, Null, FormInput.audio,
             ParseTracks(OneTrack).val.items)

\* DB_FILE as writeDB leaves it with the seed record
SeedFile == FileOf(Stringify(<<SeedSub>>))

InitIngest ==
  \E i \in RichInputs, seeded \in BOOLEAN :
    /\ dbFile = IF seeded THEN SeedFile ELSE EmptyFile
    /\ fault = "none"
    /\ dirs = IF seeded THEN {SeedId} ELSE {}
    /\ files = IF seeded THEN {RelPath(SeedId, "a.mp3")} ELSE {}
    /\ nextId = 2
    /\ req = [r \in Reqs |->
                IF r = 1 THEN [pc |-> "uploading", subId |-> IdOf(1),
                               body |-> i.body, cover |-> i.cover,
                               audio |-> i.audio, written |-> 0]
                ELSE IdleReq]
    /\ isAdmin = [c \in Sessions |-> FALSE]
    /\ resp = NoResp
    /\ okIds = IF seeded THEN {SeedId} ELSE {}
    /\ authed = {}
    /\ overlap = {}
    /\ ClientInit

NextIngest == Upload \/ Handle

SpecIngest == InitIngest /\ [][NextIngest]_vars

(***************************************************************************)
(* Export.  One ingestion on every request of ExportInputs, then downloads *)
(* on an admin session, while files of the uploads directory can be        *)
(* removed from outside the server.                                        *)
(***************************************************************************)
\* declared tracks naming the first upload name, the second, or none, and
\* one naming none, titled "Own", that carries file and originalFileName
\* keys of its own
ExportElems ==
  {ObjElem(TrackObj(fn, FALSE)) : fn \in {Undefined} \cup AudioNames}
    \cup {ObjElem([TrackObj(Undefined, TRUE) EXCEPT !.title = "Own"])}

ExportInputs ==
  { Input(RawJson(JArray(items)), <<"1">>, cover, audio) :
      items \in SeqsUpTo(ExportElems, MaxTracks),
      cover \in CoverNames \cup {Null},
      audio \in SeqsUpTo(AudioNames, MaxUploads) }

\* a file under UPLOADS_DIR is removed by something other than the server
\* (the server itself never removes one)
AssetLost(f) ==
  /\ f \in files
  /\ files' = files \ {f}
  /\ UNCHANGED <<dbFile, fault, dirs, nextId, req, isAdmin, resp, okIds,
                 authed, overlap>>
  /\ UNCHANGED clientVars

ExportIds == {IdOf(1), UnknownId}

NextExport ==
  \/ Begin(ExportInputs, 1)
  \/ Upload
  \/ Handle
  \/ Login("s1", ADMIN_PASS)
  \/ \E id \in ExportIds : Download("s1", id)
  \/ \E f \in files : AssetLost(f)

SpecExport == Init /\ [][NextExport]_vars

(***************************************************************************)
(* Storage failures.  Ingestions one at a time and the review of the       *)
(* stored records, while writes of DB_FILE can fail and DB_FILE can be     *)
(* removed or damaged from outside the server.                             *)
(***************************************************************************)
\* the form client's request, and one with a cover, a track naming its
\* upload and a track without an upload
FaultInputs ==
  { FormInput,
    Input(RawJson(JArray(<<ObjElem(TrackObj("a.mp3", FALSE)),
                           ObjElem(TrackObj(Undefined, TRUE))>>)),
          <<"7">>, "c.png", <<"a.mp3">>) }

\* fs.writeFileSync(DB_FILE) starts or stops failing
SetFault(f) ==
  /\ fault # f
  /\ fault' = f
  /\ UNCHANGED <<dbFile, dirs, files, nextId, req, isAdmin, resp, okIds,
                 authed, overlap>>
  /\ UNCHANGED clientVars

\* DB_FILE is removed from outside the server
StoreRemoved ==
  /\ dbFile.kind # "missing"
  /\ dbFile' = FileMissing
  /\ UNCHANGED <<fault, dirs, files, nextId, req, isAdmin, resp, okIds,
                 authed, overlap>>
  /\ UNCHANGED clientVars

\* the text of DB_FILE is damaged from outside the server
StoreGarbled ==
  /\ dbFile.kind = "json"
  /\ dbFile' = FileGarbled(dbFile.val)
  /\ UNCHANGED <<fault, dirs, files, nextId, req, isAdmin, resp, okIds,
                 authed, overlap>>
  /\ UNCHANGED clientVars

NextFault ==
  \/ InFlight = {} /\ Begin(FaultInputs, MaxSubs)
  \/ Upload
  \/ Handle
  \/ Login("s1", ADMIN_PASS)
  \/ Reads({"s1"}, AllIds)
  \/ Reviews({"s1"}, AllIds, {"n1"}, {""})
  \/ \E f \in Faults : SetFault(f)
  \/ StoreRemoved
  \/ StoreGarbled

SpecFault == Init /\ [][NextFault]_vars

(***************************************************************************)
(* The numSongs field.  One ingestion on every numSongs text of at most    *)
(* MaxDigits characters, with zero to MaxTracks declared tracks.           *)
(***************************************************************************)
NumChars == {"0", "1", "7", "-", "+", " ", ".", "a"}

NumSongsForms == SeqsUpTo(NumChars, MaxDigits)

NumInputs ==
  { Input(RawJson(JArray(items)), n, Null, audio) :
      items \in SeqsUpTo({ObjElem(TrackObj(Undefined, FALSE))}, MaxTracks),
      n \in NumSongsForms,
      audio \in {<<>>, <<"a.mp3">>} }

NextNum ==
  \/ Begin(NumInputs, 1)
  \/ Upload
  \/ Handle

SpecNum == Init /\ [][NextNum]_vars

(***************************************************************************)
(* Concurrent ingestions of requests that carry a cover, tracks naming     *)
(* their upload and tracks without one.                                    *)
(***************************************************************************)
\* the requests of FaultInputs, and one with a cover and two uploads whose
\* first track names the second upload
IsoInputs ==
  FaultInputs \cup
    { Input(RawJson(JArray(<<ObjElem(TrackObj("b.mp3", FALSE)),
                             ObjElem(TrackObj(Undefined, FALSE))>>)),
            <<"7">>, "c.png", <<"a.mp3", "b.mp3">>) }

NextIso ==
  \/ Begin(IsoInputs, MaxSubs)
  \/ Upload
  \/ Handle

SpecIso == Init /\ [][NextIso]_vars

(***************************************************************************)
(* The sign-in demo in the open pages, every handler at any time its page  *)
(* allows.                                                                  *)
(***************************************************************************)
NextClient ==
  \E t \in Tabs :
    \/ \E name \in {"signin", "signup"} : ShowFormClick(t, name)
    \/ \E n \in NameTexts, e \in EmailTexts, p, c \in PasswordTexts :
         SignUpSubmit(t, n, e, p, c)
    \/ SignUpSave(t)
    \/ \E e \in EmailTexts, p \in PasswordTexts : SignInSubmit(t, e, p)
    \/ SignInFinish(t)
    \/ handleSignOut(t)
    \/ \E a \in EmailTexts : DeleteAsk(t, a)
    \/ \E ok \in BOOLEAN : DeleteConfirm(t, ok)

SpecClient == Init /\ [][NextClient]_vars

(***************************************************************************)
(* The submission form under any sequence of its events.                   *)
(***************************************************************************)
NextForm ==
  \/ AddTrack
  \/ RemoveTrack
  \/ \E text \in TypedNumSongs : NumSongsChange(text)
  \/ \E i \in 1..MaxCount, title \in TitleTexts, file \in {Null} \cup AudioNames :
       EditTrack(i, title, file)
  \/ \E cover \in CoverChoices : ChooseCover(cover)
  \/ \E p \in 1..NumPosts :
       \/ SubmitClick(p)
       \/ SubmitSend(p)
       \/ \E outcome \in {"ok", "failed", "network"} : SubmitDone(p, outcome)

SpecForm == Init /\ [][NextForm]_vars

(***************************************************************************)
(* Properties of ingestion (SpecIngest).                                   *)
(***************************************************************************)
\* the declared track list of a raw tracks field
DeclaredItems(raw) == IF raw.kind = "json" THEN raw.val.items ELSE <<>>

\* the raw tracks field denotes a list of objects (an absent field stands
\* for the empty list)
ValidTracks(raw) ==
  \/ raw.kind = "missing"
  \/ /\ raw.kind = "json"
     /\ raw.val.t = "array"
     /\ \A i \in 1..Len(raw.val.items) : raw.val.items[i].t = "object"

\* the handler of POST /submit answers in this step
Answered == resp'.op = "submit" /\ resp' # resp

\* the paths of the submission directory of id that exist on disk
FilesOf(id) == {f \in files : \E n \in AllNames : f = RelPath(id, n)}

\* C1: every ingestion with a valid tracks field that returns an id adds
\* exactly one record with that id, absent before, with status pending and
\* as many tracks as were declared, whatever numSongs says.
C1_IngestCreatesOne ==
  [][ (Answered /\ resp'.ok /\ ValidTracks(resp'.input.body.tracks)) =>
        /\ Find(db, resp'.id) = 0
        /\ Cardinality({i \in 1..Len(db') : db'[i].id = resp'.id}) = 1
        /\ Len(db') = Len(db) + 1
        /\ Stored(db', resp'.id).status = "pending"
        /\ Len(Stored(db', resp'.id).tracks)
             = Len(DeclaredItems(resp'.input.body.tracks)) ]_vars

\* C1 witness: a two-track ingestion declaring numSongs = 7 has answered
\* and its record follows the one that was stored before.
C1_Witness ==
  /\ resp.op = "submit" /\ resp.ok
  /\ ValidTracks(resp.input.body.tracks)
  /\ Len(db) = 2
  /\ db[2].id = resp.id
  /\ Len(db[2].tracks) = 2
  /\ db[2].numSongs = 7

\* C2: a declared track whose fileName is the original name of some upload
\* references that upload, wherever the upload stands in the upload list.
C2_NameMatch ==
  (resp.op = "submit" /\ resp.ok) =>
    \A pos \in 1..Len(DeclaredItems(resp.input.body.tracks)) :
      LET fn == Get(DeclaredItems(resp.input.body.tracks)[pos].o, "fileName")
          t == Stored(db, resp.id).tracks[pos]
      IN  (\E k \in 1..Len(resp.input.audio) : resp.input.audio[k] = fn) =>
            /\ t["file"] = RelPath(resp.id, fn)
            /\ t["originalFileName"] = fn

\* C2 witness: the first track names the second upload and the second
\* track names the first upload, and each holds the upload it names.
C2_Witness ==
  /\ resp.op = "submit" /\ resp.ok
  /\ resp.input.audio = <<"a.mp3", "b.mp3">>
  /\ Len(Stored(db, resp.id).tracks) = 2
  /\ Get(Stored(db, resp.id).tracks[1], "fileName") = "b.mp3"
  /\ Stored(db, resp.id).tracks[1]["file"] = RelPath(resp.id, "b.mp3")
  /\ Get(Stored(db, resp.id).tracks[2], "fileName") = "a.mp3"
  /\ Stored(db, resp.id).tracks[2]["file"] = RelPath(resp.id, "a.mp3")

\* the uploads that no declared track names, in upload order
RECURSIVE Unmatched(_, _)
Unmatched(audio, items) ==
  IF audio = <<>> THEN <<>>
  ELSE LET named == \E i \in 1..Len(items) :
                      Get(items[i].o, "fileName") = Head(audio)
       IN  (IF named THEN <<>> ELSE <<Head(audio)>>)
             \o Unmatched(Tail(audio), items)

\* C3: a declared track at position i that no upload matches by name holds
\* the i-th upload of the list of uploads left unmatched by name, or no file
\* when that list has no i-th element.
C3_FallbackUnmatched ==
  (resp.op = "submit" /\ resp.ok /\ ValidTracks(resp.input.body.tracks)) =>
    LET items == DeclaredItems(resp.input.body.tracks)
        rest == Unmatched(resp.input.audio, items)
    IN  \A pos \in 1..Len(items) :
          LET fn == Get(items[pos].o, "fileName")
              t == Stored(db, resp.id).tracks[pos]
          IN  (~ \E k \in 1..Len(resp.input.audio) : resp.input.audio[k] = fn) =>
                IF pos <= Len(rest)
                  THEN t["file"] = RelPath(resp.id, rest[pos])
                  ELSE t["file"] = Null

\* C4: a malformed tracks field is answered with 400, leaves no file and no
\* directory of the request on disk and adds no record.
C4_AbortBeforeWrite ==
  (resp.op = "submit" /\ resp.input.body.tracks.kind = "malformed") =>
    /\ resp.code = 400
    /\ resp.id \notin dirs
    /\ FilesOf(resp.id) = {}
    /\ Find(db, resp.id) = 0

\* C5: a tracks field that is not a list of objects is answered with 400
\* and adds no record.
C5_InvalidMetadata ==
  (resp.op = "submit" /\ ~ValidTracks(resp.input.body.tracks)) =>
    /\ resp.code = 400
    /\ Find(db, resp.id) = 0

\* C17: a declared track that no upload matches by name and that has no
\* upload at its position is stored with file null and originalFileName
\* null, whatever keys it declared itself, and the ingestion answers ok
\* with a pending record.
C17_TrackWithoutUpload ==
  (resp.op = "submit" /\ ValidTracks(resp.input.body.tracks)) =>
    LET items == DeclaredItems(resp.input.body.tracks)
        audio == resp.input.audio
    IN  \A pos \in 1..Len(items) :
          ( /\ pos > Len(audio)
            /\ ~ \E k \in 1..Len(audio) :
                   audio[k] = Get(items[pos].o, "fileName") ) =>
            /\ resp.ok
            /\ Find(db, resp.id) # 0
            /\ Stored(db, resp.id).status = "pending"
            /\ Len(Stored(db, resp.id).tracks) = Len(items)
            /\ Stored(db, resp.id).tracks[pos]["file"] = Null
            /\ Stored(db, resp.id).tracks[pos]["originalFileName"] = Null

\* C17 witness: one declared track carrying file and originalFileName keys
\* of its own, no audio upload, and the stored track holds null for both.
C17_Witness ==
  /\ resp.op = "submit" /\ resp.ok
  /\ resp.input.audio = <<>>
  /\ Len(DeclaredItems(resp.input.body.tracks)) = 1
  /\ Get(DeclaredItems(resp.input.body.tracks)[1].o, "file") = "own"
  /\ Stored(db, resp.id).status = "pending"
  /\ Stored(db, resp.id).tracks[1]["file"] = Null
  /\ Stored(db, resp.id).tracks[1]["originalFileName"] = Null

(***************************************************************************)
(* Properties of the session gate (SpecAuth).                              *)
(***************************************************************************)
ProtectedOps == {"dashboard", "list", "get", "approve", "reject", "download"}

\* the keys under which a response carries a page, records or an archive
DataKeys == {"page", "data", "archive", "ok", "text"}

\* C6: a request to a protected operation on a session that has not logged
\* in with the configured password since its creation or last logout is
\* answered with a redirect to /admin/login, carries no data and leaves the
\* record store unchanged.
C6_SessionGate ==
  [][ (resp'.op \in ProtectedOps /\ resp'.sess \notin authed') =>
        /\ resp'.code = 302
        /\ resp'.loc = "/admin/login"
        /\ DOMAIN resp' \cap DataKeys = {}
        /\ db' = db ]_vars

\* C6 witness: with records in the store and s1 logged in, an approve sent
\* on the session s2, which is not logged in, was turned away.
C6_Witness ==
  /\ resp.op = "approve" /\ resp.sess = "s2" /\ resp.code = 302
  /\ "s2" \notin authed /\ "s1" \in authed
  /\ Len(db) > 0 /\ db[1].status = "pending"

\* C7: a login with a password other than the configured one is redirected
\* to /admin/login?err=1 and leaves the session unmarked; a session becomes
\* admin only by a login carrying exactly the configured password; a list
\* request on a session that is not authenticated is turned away.
C7_WrongPassword ==
  [][ /\ (resp'.op = "login" /\ resp'.password # ADMIN_PASS) =>
           /\ resp'.loc = "/admin/login?err=1"
           /\ isAdmin'[resp'.sess] = isAdmin[resp'.sess]
      /\ \A c \in Sessions :
           (isAdmin'[c] /\ ~isAdmin[c]) =>
             /\ resp'.op = "login" /\ resp'.sess = c
             /\ resp'.password = ADMIN_PASS
      /\ (resp'.op = "list" /\ resp' # resp /\ ~isAdmin[resp'.sess]) =>
           resp'.code = 302 ]_vars

\* C7 witness: a login differing from the configured password in letter
\* case only was sent to the error page and the session is not admin.
C7_Witness ==
  /\ resp.op = "login" /\ resp.password = "Adminpass"
  /\ resp.loc = "/admin/login?err=1"
  /\ ~isAdmin[resp.sess]
  /\ Len(db) > 0

(***************************************************************************)
(* Properties of the record store under concurrent requests (Spec).        *)
(***************************************************************************)
StoredIds == {db[i].id : i \in 1..Len(db)}

\* C8 as claimed: two ingestions that were in flight together and both
\* returned { ok, id } leave a returned id without a record in the store.
C8_LostUpdate ==
  (\E a, b \in okIds \cap overlap : a # b) =>
    \E x \in okIds : x \notin StoredIds

\* C8 as amended: the load-modify-save of the handler runs in one turn of
\* the event loop, so every id returned by an ingestion has its record in
\* the store, also when the uploads of the ingestions interleaved.
C8_NoLostUpdate == okIds \subseteq StoredIds

\* C8 witness: two ingestions that were in flight together have both
\* returned and both records are stored.
C8_Witness ==
  /\ Cardinality(okIds \cap overlap) >= 2
  /\ okIds \cap overlap \subseteq StoredIds

\* C18: no two records of the store carry the same id (every ingestion
\* having drawn a fresh identifier).
C18_UniqueIds ==
  \A i, j \in 1..Len(db) : db[i].id = db[j].id => i = j

\* C18 witness: two ingestions that were in flight together are both
\* stored, under different ids, and the first has been reviewed since.
C18_Witness ==
  /\ Len(db) = 2
  /\ {db[1].id, db[2].id} \subseteq overlap
  /\ db[1].id # db[2].id
  /\ db[1].status = "rejected"

\* the fields of a record that review does not touch
Frame(sub) ==
  [k \in DOMAIN sub \ {"status", "adminNote"} |-> sub[k]]

\* C9: no step removes a record, reorders the list or stores an id again;
\* a step that changes a stored record is the approve or reject that named
\* its id, changes status and adminNote only and changes no other record;
\* a step that adds a record appends exactly one and changes none.
C9_Lifecycle ==
  [][ /\ Len(db') >= Len(db)
      /\ \A i \in 1..Len(db) : Frame(db'[i]) = Frame(db[i])
      /\ \A i \in 1..Len(db) :
           db'[i] # db[i] =>
             /\ resp'.op \in {"approve", "reject"}
             /\ resp'.code = 200
             /\ resp'.id = db[i].id
             /\ Len(db') = Len(db)
             /\ \A j \in 1..Len(db) : j # i => db'[j] = db[j]
      /\ Len(db') > Len(db) =>
           /\ Len(db') = Len(db) + 1
           /\ SubSeq(db', 1, Len(db)) = db
           /\ db'[Len(db')].id \notin StoredIds
           /\ resp'.op = "submit" ]_vars

\* C9 witness: of two stored records the first was approved with a note
\* while the second is as ingestion stored it.
C9_Witness ==
  /\ Len(db) = 2
  /\ resp.op = "approve" /\ resp.code = 200 /\ resp.id = db[1].id
  /\ db[1].status = "approved" /\ db[1].adminNote = "n1"
  /\ db[2].status = "pending" /\ db[2].adminNote = Null

\* C10: after two approve calls in succession on a stored submission the
\* status is approved and adminNote is the note of the second call (null
\* when the second call carried none), not the note of the first.
C10_ApproveTwice ==
  (resp.op = "approve" /\ resp.code = 200 /\ resp.first # Undefined) =>
    /\ Stored(db, resp.id).status = "approved"
    /\ Stored(db, resp.id).adminNote
         = (IF resp.note \in {"n1", "n2"} THEN resp.note ELSE Null)

\* C10 witness: approve with note n1, then approve with note n2, and the
\* record holds n2.
C10_Witness ==
  /\ resp.op = "approve" /\ resp.code = 200
  /\ resp.first = "n1" /\ resp.note = "n2"
  /\ Stored(db, resp.id).adminNote = "n2"

\* the outcome an approve or reject response stands for
OutcomeOf(op) == IF op = "approve" THEN "approved" ELSE "rejected"

\* C11: an approve or reject that passed the session gate answers 404 and
\* leaves the store unchanged when no record carries the id; otherwise it
\* succeeds whatever the status of the record was, and the record then
\* holds the outcome of the call and the note of the call (null when the
\* call carried none).
C11_Unconditional ==
  [][ (resp'.op \in {"approve", "reject"} /\ resp'.code # 302) =>
        IF Find(db, resp'.id) = 0
          THEN resp'.code = 404 /\ db' = db
          ELSE /\ resp'.code = 200
               /\ Stored(db', resp'.id).status = OutcomeOf(resp'.op)
               /\ Stored(db', resp'.id).adminNote
                    = (IF Truthy(resp'.note) THEN resp'.note ELSE Null) ]_vars

\* C11 witness: a submission that was already approved has been rejected
\* by a call without a note, and holds rejected and a null note.
C11_Witness ==
  /\ resp.op = "reject" /\ resp.code = 200 /\ resp.from = "approved"
  /\ Stored(db, resp.id).status = "rejected"
  /\ Stored(db, resp.id).adminNote = Null

\* C20: starting from the empty store, every step leaves every stored
\* record with a status among pending, approved and rejected; a record is
\* pending in the step that stores it; and a record that is approved or
\* rejected is not pending after the step, so that it is never pending
\* again.
C20_StatusMachine ==
  [][ /\ db = <<>> \/ \A i \in 1..Len(db) :
                        db[i].status \in {"pending", "approved", "rejected"}
      /\ \A j \in 1..Len(db') :
           /\ db'[j].status \in {"pending", "approved", "rejected"}
           /\ Find(db, db'[j].id) = 0 => db'[j].status = "pending"
      /\ \A i \in 1..Len(db) :
           db[i].status # "pending" =>
             \A j \in 1..Len(db') :
               db'[j].id = db[i].id => db'[j].status # "pending" ]_vars

\* C20 witness: a record that had been rejected was approved, while the
\* record stored after it is pending.
C20_Witness ==
  /\ resp.op = "approve" /\ resp.code = 200 /\ resp.from = "rejected"
  /\ Len(db) = 2
  /\ db[1].id = resp.id /\ db[1].status = "approved"
  /\ db[2].status = "pending"

(***************************************************************************)
(* Properties of the export (SpecExport).                                  *)
(***************************************************************************)
\* the download handler answers in this step
Exported == resp'.op = "download" /\ resp'.code # 302 /\ resp' # resp

\* the stored paths of a record that resolve to a file on disk
ResolvableCover(sub) == Truthy(sub.cover) /\ sub.cover \in files
ResolvableTracks(sub) ==
  {i \in 1..Len(sub.tracks) :
     Truthy(sub.tracks[i]["file"]) /\ sub.tracks[i]["file"] \in files}

\* the positions of the archive entries that carry the file at path
EntriesOf(archive, path) ==
  {k \in 1..Len(archive) : archive[k].path = path}

\* C12: a download of a stored submission with N tracks whose audio files
\* all resolve on disk and whose cover resolves answers an archive of
\* exactly N+2 entries: first the metadata document, which parses to the
\* stored record, then the cover under its base name, then one entry per
\* track in track order carrying the file of that track.
C12_ExportComplete ==
  [][ Exported =>
        LET sub == Stored(db, resp'.id)
            N == Len(sub.tracks)
            a == resp'.archive
        IN  (Find(db, resp'.id) # 0 /\ ResolvableCover(sub)
               /\ ResolvableTracks(sub) = 1..N) =>
              /\ resp'.code = 200
              /\ Len(a) = N + 2
              /\ a[1].name = "metadata.json"
              /\ Parse(a[1].text) = sub
              /\ a[2].path = sub.cover
              /\ \A i \in 1..N : a[i + 2].path = sub.tracks[i]["file"] ]_vars

\* C12 witness: a record with a cover and two tracks that hold the same
\* upload was exported as four entries.
C12_Witness ==
  /\ resp.op = "download" /\ resp.code = 200
  /\ Len(Stored(db, resp.id).tracks) = 2
  /\ Len(resp.archive) = 4
  /\ resp.archive[3].path = resp.archive[4].path
  /\ Parse(resp.archive[1].text) = Stored(db, resp.id)

\* C13: a download that passed the session gate answers 404 Not found when
\* no record carries the id; 404 Files missing, without an archive, when
\* the record is stored and its directory is absent; and otherwise an
\* archive made of the metadata document, the cover when its path resolves
\* to a file and one entry per track whose path resolves to a file, in
\* track order, the paths that do not resolve being skipped.
C13_ExportFailures ==
  [][ Exported =>
        LET sub == Stored(db, resp'.id)
            a == resp'.archive
            kept == ResolvableTracks(sub)
        IN  IF Find(db, resp'.id) = 0
              THEN /\ resp'.code = 404 /\ resp'.text = "Not found"
                   /\ "archive" \notin DOMAIN resp'
            ELSE IF sub.id \notin dirs
              THEN /\ resp'.code = 404 /\ resp'.text = "Files missing"
                   /\ "archive" \notin DOMAIN resp'
            ELSE /\ resp'.code = 200
                 /\ a[1].name = "metadata.json"
                 /\ Len(a) = 1 + (IF ResolvableCover(sub) THEN 1 ELSE 0)
                               + Cardinality(kept)
                 /\ \A k \in 2..Len(a) : a[k].path \in files
                 /\ ResolvableCover(sub) => a[2].path = sub.cover
                 /\ \A i \in kept :
                      \E k \in 2..Len(a) :
                        /\ a[k].path = sub.tracks[i]["file"]
                        /\ a[k].name = sub.tracks[i]["originalFileName"] ]_vars

\* C13 witness: the directory of the record exists, its cover and the file
\* of its first track are gone from disk, and the download answered the
\* metadata document and the file of the second track.
C13_Witness ==
  /\ resp.op = "download" /\ resp.code = 200
  /\ Len(Stored(db, resp.id).tracks) = 2
  /\ Truthy(Stored(db, resp.id).cover)
  /\ Stored(db, resp.id).cover \notin files
  /\ Stored(db, resp.id).tracks[1]["file"] \notin files
  /\ Truthy(Stored(db, resp.id).tracks[1]["file"])
  /\ Len(resp.archive) = 2
  /\ resp.archive[2].path = Stored(db, resp.id).tracks[2]["file"]

\* C22: every track of a stored record has a file exactly when it has an
\* originalFileName, whatever file and originalFileName keys its declared
\* metadata carried, and every file entry of a downloaded archive bears
\* the original name of an upload, never the name track-<position><ext>.
C22_FileIffName ==
  /\ \A i \in 1..Len(db) :
       \A k \in 1..Len(db[i].tracks) :
         Truthy(db[i].tracks[k]["file"])
           <=> Truthy(db[i].tracks[k]["originalFileName"])
  /\ (resp.op = "download" /\ resp.code = 200) =>
       \A k \in 2..Len(resp.archive) : resp.archive[k].name \in AllNames

\* C22 witness: both declared tracks carried file and originalFileName
\* keys of their own; the first got the upload by position and records its
\* path and name, the second got none and records neither, and the archive
\* holds the upload under its original name.
C22_Witness ==
  /\ resp.op = "download" /\ resp.code = 200
  /\ LET t == Stored(db, resp.id).tracks IN
       /\ Len(t) = 2
       /\ t[1]["title"] = "Own" /\ t[2]["title"] = "Own"
       /\ t[1]["file"] = resp.id \o "/a.mp3"
       /\ t[1]["originalFileName"] = "a.mp3"
       /\ t[2]["file"] = Null /\ t[2]["originalFileName"] = Null
  /\ Len(resp.archive) = 2
  /\ resp.archive[2].name = "a.mp3"

(***************************************************************************)
(* Properties of the record store under storage failures (SpecFault).      *)
(***************************************************************************)
\* C14: while writes succeed, saving what readDB returns leaves DB_FILE
\* such that the next readDB returns the same records in the same order.
C14_RoundTrip ==
  fault = "none" => Load(Saved(dbFile, Load(dbFile))) = Load(dbFile)

\* C14 witness: the round trip on a store of two records, the first with a
\* cover, a track without a file and a note, the second as ingested.
C14_Witness ==
  /\ fault = "none" /\ dbFile.kind = "json"
  /\ Len(db) = 2
  /\ db[1].cover # Null /\ db[1].tracks[2]["file"] = Null
  /\ db[1].status = "approved" /\ db[1].adminNote = "n1"
  /\ db[2].status = "pending" /\ db[2].adminNote = Null
  /\ Load(Saved(dbFile, Load(dbFile))) = db

\* a handler that reads the store answers in this step on a session that
\* passed the gate
ReadAnswered ==
  /\ resp'.op \in {"list", "get", "approve", "reject", "download"}
  /\ resp'.code # 302
  /\ resp' # resp

\* C15: while DB_FILE is missing or holds text that JSON.parse rejects,
\* readDB returns the empty list, list answers 200 with an empty list, and
\* get, approve, reject and download of any id answer 404, none of them
\* 500, and leave DB_FILE as it is.
C15_ReadDegrades ==
  [][ /\ dbFile.kind # "json" => readDB = <<>>
      /\ (dbFile.kind # "json" /\ ReadAnswered) =>
           /\ dbFile' = dbFile
           /\ IF resp'.op = "list"
                THEN resp'.code = 200 /\ resp'.data = <<>>
                ELSE resp'.code = 404 ]_vars

\* C15 witness: DB_FILE held a record, its text was damaged, and a get of
\* the id of that record was answered 404.
C15_Witness ==
  /\ dbFile.kind = "garbled" /\ Len(dbFile.val) > 0
  /\ resp.op = "get" /\ resp.code = 404
  /\ resp.id = dbFile.val[1].id

\* C16: an ingestion whose write of DB_FILE fails is answered 500, leaves
\* the record list that readDB returns as it was, and leaves the files of
\* the request on disk in a directory whose id is in no record.
C16_WriteFailure ==
  [][ (Answered /\ WriteThrows) =>
        /\ resp'.code = 500
        /\ readDB' = readDB
        /\ Find(readDB', resp'.id) = 0
        /\ \A k \in 1..Len(resp'.input.audio) :
             RelPath(resp'.id, resp'.input.audio[k]) \in files' ]_vars

(***************************************************************************)
(* Properties of the numSongs field (SpecNum).                             *)
(***************************************************************************)
\* the decimal numeral of an integer, as a sequence of characters
DigitChar(d) == CHOOSE c \in {"0", "1", "2", "3", "4", "5", "6", "7", "8", "9"} :
                  DigitVal(c) = d

RECURSIVE Decimal(_)
Decimal(n) ==
  IF n < 0 THEN <<"-">> \o Decimal(0 - n)
  ELSE IF n < 10 THEN <<DigitChar(n)>>
  ELSE Decimal(n \div 10) \o <<DigitChar(n % 10)>>

\* the text is blanks, an optional sign and then digits only
Numeral(text) ==
  LET s == SkipBlanks(text)
      body == IF s # <<>> /\ Head(s) \in {"-", "+"} THEN Tail(s) ELSE s
  IN  body # <<>> /\ \A k \in 1..Len(body) : DigitVal(body[k]) >= 0

\* the longest prefix of the text that is a numeral (<<>> when none is)
NumeralPrefix(text) ==
  LET ks == {k \in 1..Len(text) : Numeral(SubSeq(text, 1, k))}
  IN  IF ks = {} THEN <<>>
      ELSE SubSeq(text, 1, CHOOSE k \in ks : \A j \in ks : j <= k)

\* a numeral denotes n: without blanks, plus sign and leading zeros it is
\* the decimal numeral of n (or of -n when n is zero)
RECURSIVE StripZeros(_)
StripZeros(ds) ==
  IF Len(ds) > 1 /\ Head(ds) = "0" THEN StripZeros(Tail(ds)) ELSE ds

Denotes(text, n) ==
  LET s == SkipBlanks(text)
      neg == Head(s) = "-"
      body == StripZeros(IF Head(s) \in {"-", "+"} THEN Tail(s) ELSE s)
  IN  body = Decimal(IF neg THEN 0 - n ELSE n)

\* the text is the decimal numeral of an integer: digits without leading
\* zero, or a minus sign and such digits other than 0
DecimalNumeral(text) ==
  LET body == IF text # <<>> /\ Head(text) = "-" THEN Tail(text) ELSE text
  IN  /\ body # <<>>
      /\ \A k \in 1..Len(body) : DigitVal(body[k]) >= 0
      /\ StripZeros(body) = body
      /\ text # <<"-", "0">>

\* C19 as claimed: the numSongs of the stored record is the declared form
\* value, character for character.
C19_Verbatim ==
  (resp.op = "submit" /\ resp.ok) =>
    Decimal(Stored(db, resp.id).numSongs) = resp.input.body.numSongs

\* C19 as amended: the numSongs of the stored record is the integer that
\* the longest numeral prefix of the form value denotes, and 0 when the
\* value is missing or starts with no numeral; it is the form value itself
\* exactly when that is a decimal numeral; and the number of stored tracks
\* is the number of declared tracks whatever numSongs is.
C19_ParsedNumSongs ==
  (resp.op = "submit" /\ resp.ok) =>
    LET text == resp.input.body.numSongs
        n == Stored(db, resp.id).numSongs
        pre == NumeralPrefix(text)
    IN  /\ IF pre = <<>> THEN n = 0 ELSE Denotes(pre, n)
        /\ (Decimal(n) = text) <=> DecimalNumeral(text)
        /\ Len(Stored(db, resp.id).tracks)
             = Len(DeclaredItems(resp.input.body.tracks))

\* C19 witness: the form value "7a" was stored as 7 with one track.
C19_Witness ==
  /\ resp.op = "submit" /\ resp.ok
  /\ resp.input.body.numSongs = <<"7", "a">>
  /\ Stored(db, resp.id).numSongs = 7
  /\ Len(Stored(db, resp.id).tracks) = 1

(***************************************************************************)
(* Properties of asset placement under concurrent ingestions (SpecIso).    *)
(***************************************************************************)
\* the path names a file of the submission directory of id
InDirOf(p, id) == \E n \in AllNames : p = id \o "/" \o n

\* the paths a record references
RefsOf(sub) ==
  ((IF sub.cover # Null THEN {sub.cover} ELSE {})
     \cup {sub.tracks[i]["file"] : i \in 1..Len(sub.tracks)}) \ {Null}

\* C21: the cover path and every track file path of a stored record lie in
\* the directory named by the id of that record and name a file that
\* multer placed there, so that no record references a file of another
\* ingestion, also when the uploads of the ingestions interleave.
C21_AssetIsolation ==
  \A i \in 1..Len(db) :
    \A p \in RefsOf(db[i]) :
      /\ InDirOf(p, db[i].id)
      /\ p \in files
      /\ \A j \in 1..Len(db) : j # i => ~InDirOf(p, db[j].id)

\* C21 witness: two ingestions that were in flight together and uploaded
\* files of the same name are stored, the second with a cover, and each
\* references the copy in its own directory.
C21_Witness ==
  /\ Len(db) = 2
  /\ {db[1].id, db[2].id} \subseteq overlap
  /\ db[1].tracks[1]["file"] = db[1].id \o "/a.mp3"
  /\ db[2].tracks[1]["file"] = db[2].id \o "/a.mp3"
  /\ db[2].cover = db[2].id \o "/c.png"

(***************************************************************************)
(* Properties of the sign-in demo (SpecClient).                            *)
(***************************************************************************)
\* the step is the save of the sign-up of page t
SignUpSaves(t) ==
  page[t].signup.pc = "delay" /\ page'[t].signup.pc = "idle"

\* C23: a sign-up never replaces an existing account: when a sign-up saves,
\* no account is stored for its email, and every other account is stored
\* after the save exactly when it was stored before it, unchanged; an
\* account stored or deleted since the sign-up loaded the table is neither
\* overwritten nor resurrected.
C23_SignUpNeverReplaces ==
  [][\A t \in Tabs :
       SignUpSaves(t) =>
         LET email == page[t].signup.email
             before == _loadUsers
             after == _loadUsers'
         IN  /\ email \notin DOMAIN before
             /\ DOMAIN after = DOMAIN before \cup {email}
             /\ \A e \in DOMAIN before : after[e] = before[e]]_vars

(***************************************************************************)
(* Properties of the submission form (SpecForm).                           *)
(***************************************************************************)
\* the text is a numeral that denotes n
Shows(text, n) == Numeral(text) /\ Denotes(text, n)

\* C24: after any sequence of add-track, remove-track, numSongs-change and
\* submit events the track counter is at least 1, the numSongs input shows
\* the track counter, as many track entries are rendered as the counter
\* says, and the numSongs value of every form sent denotes the number of
\* track entries sent with it.
C24_TrackCounter ==
  /\ trackCount >= 1
  /\ Shows(numSongsInput, trackCount)
  /\ Len(tracksContainer) = trackCount
  /\ \A p \in 1..NumPosts :
       posts[p].pc = "fetch" =>
         Shows(posts[p].body.numSongs, Len(posts[p].body.tracks))

====
